---- MODULE Spec2Model ----
(***************************************************************************)
(* Model of the ride weather advisor (src/ride_weather_advisor.py), of the *)
(* forecast access (src/weather_api.py), of the embed validation of the    *)
(* notification service (src/services/notification_service.py) and of the  *)
(* loop of src/main.py.                                                    *)
(*                                                                         *)
(* Arithmetic.  The program computes scores as floats.  The model is exact *)
(* fixed point: a score s is the integer s * ScoreUnit, ScoreUnit = 3000,  *)
(* which represents every term of compute_discomfort exactly when wind     *)
(* speed and temperature are whole numbers and precipitation is given in   *)
(* hundredths of a millimetre:                                             *)
(*     |T - ideal| / 20        = 150 * |T - ideal|   units                 *)
(*     (p/100) / 1.5           = 20 * p              units                 *)
(*     (ws - 15) / 30          = 100 * (ws - 15)     units                 *)
(* round(x, 3) is rounding to the nearest multiple of 3 units; no value of *)
(* the grid lies half way between two multiples, so no tie rule is needed. *)
(* Binary representation error of floats is not modelled.                  *)
(*                                                                         *)
(* Time is in minutes since local midnight of the forecast date.           *)
(***************************************************************************)
EXTENDS Integers, Sequences, FiniteSets, TLC

VARIABLES
    \* ---- scoring engine harness (SpecScore) ----
    sc_in,          \* arguments of compute_risk / compute_discomfort
    sc_risk,        \* <<result of compute_risk>>, or <<>> before the call
    sc_disc,        \* <<result of compute_discomfort>>, or <<>> before the call
    \* ---- departure selector harness (SpecSelect) ----
    sel_mode,       \* self.MODE of the advisor whose selector runs
    sel_cands,      \* argument `candidates`
    sel_best,       \* returned candidate, PyNone, or NoResult before the call
    \* ---- run_forecast (Spec) ----
    MODE,           \* self.MODE
    GEAR_LEVEL,     \* self.GEAR_LEVEL
    NOW,            \* self.NOW, minutes since midnight
    data,           \* the Forecast Table returned by fetch_forecast
    pc,             \* position inside run_forecast
    departure_times,\* list built by the while loop
    levels,         \* gear levels still to evaluate (head = current)
    dt_idx,         \* index into departure_times of the slot evaluated next
    candidates,     \* candidate list of the current gear level
    options,        \* options accumulated so far
    \* ---- the departure windows of an advisor (lines 27-30) ----
    MORNING_LATEST_DEPARTURE,       \* self.MORNING_LATEST_DEPARTURE, minutes
    MORNING_MAX_EARLY_DELTA_MIN,    \* self.MORNING_MAX_EARLY_DELTA_MIN
    EVENING_FIRST_DEPARTURE,        \* self.EVENING_FIRST_DEPARTURE, minutes
    EVENING_MAX_LATE_DELTA_MIN,     \* self.EVENING_MAX_LATE_DELTA_MIN
    \* ---- round-trip combiner harness (SpecCombine) ----
    cmb_morning,    \* argument morning_result
    cmb_evening,    \* argument evening_result
    cmb_best,       \* returned pair, PyNone, or NoResult before the call
    \* ---- run_and_notify_day (SpecDay) ----
    day_pc,         \* position inside run_and_notify_day
    morning_result, \* result of morning.run_forecast(), PyNone, or NoResult
    evening_result, \* result of evening.run_forecast(), PyNone, or NoResult
    combo,          \* value of combine_forecasts_same_gear, NoResult before
    sent,           \* notifications handed to the notification manager, in order
    \* ---- fetch_forecast of src/weather_api.py (SpecFetch) ----
    fetch_pc,       \* position inside fetch_forecast / _fetch_batch
    attempt,        \* loop variable of _fetch_batch
    events,         \* what _fetch_batch did so far: outcome of each attempt, sleeps
    raw,            \* value returned by _fetch_batch, NoResult before
    parsed,         \* value returned by _to_local_times, NoResult before
    \* ---- _validate_embed_content of NotificationService (SpecEmbed) ----
    emb_in,         \* arguments title, description, fields
    emb_out,        \* returned title, description, fields; NoResult before
    \* ---- the loop of src/main.py (SpecMain) ----
    main_pc,        \* position inside the loop body
    main_now,       \* datetime.now() of the iteration (line 86)
    status_file,    \* notification_status.json: the dates stored with true
    status_cache,   \* FileService._cache entry of that file: [data], NoResult before
    first_class,    \* local of the loop: Unbound, FALSE or a class start
    last_class,     \* local of the loop: Unbound, FALSE or a class end
    main_error      \* the exception that ended the process, PyNone if none

vars == <<sc_in, sc_risk, sc_disc, sel_mode, sel_cands, sel_best,
          MODE, GEAR_LEVEL, NOW, data, pc, departure_times, levels, dt_idx,
          candidates, options,
          MORNING_LATEST_DEPARTURE, MORNING_MAX_EARLY_DELTA_MIN,
          EVENING_FIRST_DEPARTURE, EVENING_MAX_LATE_DELTA_MIN,
          cmb_morning, cmb_evening, cmb_best,
          day_pc, morning_result, evening_result, combo, sent,
          fetch_pc, attempt, events, raw, parsed,
          emb_in, emb_out,
          main_pc, main_now, status_file, status_cache, first_class, last_class,
          main_error>>

scoreVars  == <<sc_in, sc_risk, sc_disc>>
selectVars == <<sel_mode, sel_cands, sel_best>>
runVars    == <<MODE, GEAR_LEVEL, NOW, data, pc, departure_times, levels,
                dt_idx, candidates, options>>
windowVars == <<MORNING_LATEST_DEPARTURE, MORNING_MAX_EARLY_DELTA_MIN,
                EVENING_FIRST_DEPARTURE, EVENING_MAX_LATE_DELTA_MIN>>
combineVars == <<cmb_morning, cmb_evening, cmb_best>>
dayVars    == <<day_pc, morning_result, evening_result, combo, sent>>
fetchVars  == <<fetch_pc, attempt, events, raw, parsed>>
embedVars  == <<emb_in, emb_out>>
mainVars   == <<main_pc, main_now, status_file, status_cache, first_class, last_class,
                main_error>>
ioVars     == <<embedVars, mainVars>>
restVars   == <<windowVars, combineVars, dayVars, fetchVars, ioVars>>

----------------------------------------------------------------------------
(* Units and program constants *)

ScoreUnit == 3000               \* 1.0 as a fixed-point score
PENALTY   == 1800               \* the literal 0.6 added per triggered penalty

MAX_ACCEPTABLE_RAIN == 20                       \* 0.2 mm, in hundredths
MAX_ACCEPTABLE_wind_speed_10m == 30
MAX_TOLERATED_WIND_WITH_GOOD_DIRECTION == 35
MIN_ACCEPTABLE_TEMP == 6
RISK_SCORE_TOLERANCE == 450                     \* 0.15
RISK_SCORE_THRESHOLD == 1800                    \* 0.6
BANNED_WMO_CODES == {45, 48, 55, 56, 57, 65, 66, 67, 75, 77, 81, 82, 86, 95, 96, 99}

None == -1                      \* Python None for dir_min / dir_max
PyNone == [none |-> TRUE]       \* Python None where a candidate is expected
NoResult == [pending |-> TRUE]  \* the call has not been made yet

Modes == {"morning", "evening"}
Waypoints == {"Tournai", "E42", "E42bis", "Mons"}

Min(a, b) == IF a <= b THEN a ELSE b
Max(a, b) == IF a >= b THEN a ELSE b
Abs(a) == IF a >= 0 THEN a ELSE 0 - a

\* get_coords: the waypoint arcs of a mode
get_coords(mode) ==
    IF mode = "morning"
    THEN [Tournai |-> [dir_min |-> 270,  dir_max |-> 360],
          E42     |-> [dir_min |-> 270,  dir_max |-> 360],
          E42bis  |-> [dir_min |-> 180,  dir_max |-> 360],
          Mons    |-> [dir_min |-> None, dir_max |-> None]]
    ELSE [Mons    |-> [dir_min |-> 45,   dir_max |-> 135],
          E42bis  |-> [dir_min |-> 90,   dir_max |-> 180],
          E42     |-> [dir_min |-> 90,   dir_max |-> 180],
          Tournai |-> [dir_min |-> None, dir_max |-> None]]

\* line 80: the subscript [self.MODE] raises KeyError when the mode is not a key
get_coords_raises(mode) == mode \notin Modes

\* iteration order of the dict returned by get_coords (insertion order)
coord_order(mode) ==
    IF mode = "morning" THEN <<"Tournai", "E42", "E42bis", "Mons">>
                        ELSE <<"Mons", "E42bis", "E42", "Tournai">>

----------------------------------------------------------------------------
(* 4.1 Scoring engine *)

\* line 88
wind_direction_10m_ok(mode, coord_key, wind_direction_10m) ==
    LET dir_min == get_coords(mode)[coord_key].dir_min
        dir_max == get_coords(mode)[coord_key].dir_max
    IN  \/ dir_min = None
        \/ dir_max = None
        \/ (dir_min <= wind_direction_10m /\ wind_direction_10m <= dir_max)

\* faulty variant: the banned-code veto is scored like one more 0.6 penalty
compute_risk_veto_as_penalty(mode, wind_speed_10m, precipitation, temperature_2m, weather_code, wind_direction_10m, coord_key) ==
    LET ok == wind_direction_10m_ok(mode, coord_key, wind_direction_10m)
        s0 == IF weather_code \in BANNED_WMO_CODES THEN PENALTY ELSE 0
        s1 == IF /\ wind_speed_10m > MAX_ACCEPTABLE_wind_speed_10m
                 /\ (~ok \/ wind_speed_10m > MAX_TOLERATED_WIND_WITH_GOOD_DIRECTION)
              THEN s0 + PENALTY ELSE s0
        s2 == IF precipitation > MAX_ACCEPTABLE_RAIN THEN s1 + PENALTY ELSE s1
        s3 == IF temperature_2m < MIN_ACCEPTABLE_TEMP THEN s2 + PENALTY ELSE s2
    IN  Min(s3, ScoreUnit)

\* faulty variant: the good-direction allowance is dropped (any wind above the
\* acceptable maximum is penalised)
compute_risk_no_dir_gate(mode, wind_speed_10m, precipitation, temperature_2m, weather_code, wind_direction_10m, coord_key) ==
    IF weather_code \in BANNED_WMO_CODES THEN ScoreUnit
    ELSE
    LET s1 == IF wind_speed_10m > MAX_ACCEPTABLE_wind_speed_10m
              THEN PENALTY ELSE 0
        s2 == IF precipitation > MAX_ACCEPTABLE_RAIN THEN s1 + PENALTY ELSE s1
        s3 == IF temperature_2m < MIN_ACCEPTABLE_TEMP THEN s2 + PENALTY ELSE s2
    IN  Min(s3, ScoreUnit)

\* faulty variant: temperature compared with <= instead of <
compute_risk_temp_le(mode, wind_speed_10m, precipitation, temperature_2m, weather_code, wind_direction_10m, coord_key) ==
    IF weather_code \in BANNED_WMO_CODES THEN ScoreUnit
    ELSE
    LET ok == wind_direction_10m_ok(mode, coord_key, wind_direction_10m)
        s1 == IF /\ wind_speed_10m > MAX_ACCEPTABLE_wind_speed_10m
                 /\ (~ok \/ wind_speed_10m > MAX_TOLERATED_WIND_WITH_GOOD_DIRECTION)
              THEN PENALTY ELSE 0
        s2 == IF precipitation > MAX_ACCEPTABLE_RAIN THEN s1 + PENALTY ELSE s1
        s3 == IF temperature_2m <= MIN_ACCEPTABLE_TEMP THEN s2 + PENALTY ELSE s2
    IN  Min(s3, ScoreUnit)

\* compute_risk (self.MODE is the first parameter)
compute_risk(mode, wind_speed_10m, precipitation, temperature_2m, weather_code, wind_direction_10m, coord_key) ==
    IF weather_code \in BANNED_WMO_CODES THEN ScoreUnit
    ELSE
    LET ok == wind_direction_10m_ok(mode, coord_key, wind_direction_10m)
        s1 == IF /\ wind_speed_10m > MAX_ACCEPTABLE_wind_speed_10m
                 /\ (~ok \/ wind_speed_10m > MAX_TOLERATED_WIND_WITH_GOOD_DIRECTION)
              THEN PENALTY ELSE 0
        s2 == IF precipitation > MAX_ACCEPTABLE_RAIN THEN s1 + PENALTY ELSE s1
        s3 == IF temperature_2m < MIN_ACCEPTABLE_TEMP THEN s2 + PENALTY ELSE s2
    IN  Min(s3, ScoreUnit)

\* line 100: ideal temperature of a gear level
ideal_temp(gear_level) ==
    CASE gear_level = 0 -> 22
      [] gear_level = 1 -> 14
      [] gear_level = 2 -> 10

\* compute_discomfort; precipitation in hundredths of a millimetre
compute_discomfort(temperature_2m, precipitation, wind_speed_10m, gear_level) ==
    LET temp_penalty == 150 * Abs(temperature_2m - ideal_temp(gear_level))
        rain_penalty == Min(20 * precipitation, ScoreUnit)
        wind_penalty == Max(0, 100 * (wind_speed_10m - 15))
    IN  Min(temp_penalty + rain_penalty + wind_penalty, ScoreUnit)

----------------------------------------------------------------------------
(* Harness for the scoring engine: the arguments are drawn from bounded    *)
(* sets, each action applies one of the two functions.                     *)

ExtremeWind == 10000
ExtremeTemp == 1000
ExtremeRain == 300              \* 3.00 mm, also used negated

WindSpeeds == {15, 30, 31, 35, 36, ExtremeWind}
Precips    == {0 - ExtremeRain, 0, 20, 21, ExtremeRain}
Temps      == {0 - ExtremeTemp, 5, 6, 22, ExtremeTemp}
Codes      == {0, 45, 95}
Directions == {100, 200, 300}
GearLevels == {0, 1, 2}

ScoreInputs ==
    [mode : Modes, pt : Waypoints, ws : WindSpeeds, p : Precips, T : Temps,
     code : Codes, dir : Directions, level : GearLevels]

IdleScore ==
    /\ sc_in = [mode |-> "morning", pt |-> "Mons", ws |-> 0, p |-> 0, T |-> 14,
                code |-> 0, dir |-> 0, level |-> 1]
    /\ sc_risk = <<>>
    /\ sc_disc = <<>>

ScoreRisk ==
    /\ sc_risk = <<>>
    /\ sc_risk' = <<compute_risk(sc_in.mode, sc_in.ws, sc_in.p, sc_in.T,
                                 sc_in.code, sc_in.dir, sc_in.pt)>>
    /\ UNCHANGED <<sc_in, sc_disc, selectVars, runVars, restVars>>

ScoreDiscomfort ==
    /\ sc_disc = <<>>
    /\ sc_disc' = <<compute_discomfort(sc_in.T, sc_in.p, sc_in.ws, sc_in.level)>>
    /\ UNCHANGED <<sc_in, sc_risk, selectVars, runVars, restVars>>

----------------------------------------------------------------------------
(* 4.3 Departure selector *)

\* round(x, 3) of a score: the nearest multiple of ScoreUnit / 1000
Round3(x) == ((x + 1) \div 3) * 3

\* the combined score c["risk"] + c["discomfort"]
Score(c) == c.risk + c.discomfort

\* the sort key of line 113 and the order of Python tuples
SortKey(c) == <<Round3(Score(c)), c.departure>>
KeyLess(a, b) == a[1] < b[1] \/ (a[1] = b[1] /\ a[2] < b[2])

\* c is placed before e: ascending order, or descending when reverse is set
Before(c, e, reverse) ==
    IF reverse THEN KeyLess(SortKey(e), SortKey(c))
               ELSE KeyLess(SortKey(c), SortKey(e))

RECURSIVE InsertSorted(_, _, _)
InsertSorted(s, c, reverse) ==
    IF s = <<>> THEN <<c>>
    ELSE IF Before(c, Head(s), reverse) THEN <<c>> \o s
    ELSE <<Head(s)>> \o InsertSorted(Tail(s), c, reverse)

\* sorted(candidates, key=..., reverse=reverse): a stable sort
RECURSIVE Sorted(_, _)
Sorted(cands, reverse) ==
    IF cands = <<>> THEN <<>>
    ELSE InsertSorted(Sorted(SubSeq(cands, 1, Len(cands) - 1), reverse),
                      cands[Len(cands)], reverse)

\* max(seq, key=departure) and min(seq, key=departure): the first extreme element
RECURSIVE MaxByDeparture(_)
MaxByDeparture(s) ==
    IF Len(s) = 1 THEN s[1]
    ELSE LET m == MaxByDeparture(Tail(s))
         IN  IF Head(s).departure >= m.departure THEN Head(s) ELSE m

RECURSIVE MinByDeparture(_)
MinByDeparture(s) ==
    IF Len(s) = 1 THEN s[1]
    ELSE LET m == MinByDeparture(Tail(s))
         IN  IF Head(s).departure <= m.departure THEN Head(s) ELSE m

\* lines 120-123
close_candidates(sorted_candidates, best_score) ==
    LET InBand(c) == Abs(Score(c) - best_score) <= RISK_SCORE_TOLERANCE
    IN  SelectSeq(sorted_candidates, InBand)

\* faulty variant: the tolerance band is skipped and the first sorted candidate returned
select_best_departure_no_band(mode, cands) ==
    IF cands = <<>> THEN PyNone
    ELSE Sorted(cands, mode = "morning")[1]

\* faulty variant: the latest candidate of the band is picked in both modes
select_best_departure_always_max(mode, cands) ==
    IF cands = <<>> THEN PyNone
    ELSE
    LET sorted_candidates == Sorted(cands, mode = "morning")
        best == sorted_candidates[1]
        close == close_candidates(sorted_candidates, Score(best))
    IN  MaxByDeparture(close)

\* faulty variant: a list whose candidates are all refused has no best departure
select_best_departure_skips_refused(mode, cands) ==
    IF \A k \in 1..Len(cands) : cands[k].refused THEN PyNone
    ELSE
    LET reverse == (mode = "morning")
        sorted_candidates == Sorted(cands, reverse)
        close == close_candidates(sorted_candidates, Score(sorted_candidates[1]))
    IN  IF mode = "morning" THEN MaxByDeparture(close)
                            ELSE MinByDeparture(close)

\* select_best_departure (self.MODE is the first parameter)
select_best_departure(mode, cands) ==
    IF cands = <<>> THEN PyNone
    ELSE
    LET reverse == (mode = "morning")
        sorted_candidates == Sorted(cands, reverse)
        best == sorted_candidates[1]
        best_score == Score(best)
        close == close_candidates(sorted_candidates, best_score)
    IN  IF mode = "morning" THEN MaxByDeparture(close)
                            ELSE MinByDeparture(close)

\* faulty variant: a score equal to the threshold already refuses
refused_flag_inclusive(risk, discomfort) ==
    risk >= RISK_SCORE_THRESHOLD \/ discomfort >= RISK_SCORE_THRESHOLD

\* line 186: the refusal flag of a candidate
refused_flag(risk, discomfort) ==
    risk > RISK_SCORE_THRESHOLD \/ discomfort > RISK_SCORE_THRESHOLD

----------------------------------------------------------------------------
(* Harness for the selector: a candidate list as run_forecast builds it    *)
(* (ascending, distinct departures; refused derived from the two scores),  *)
(* its length and scores drawn from bounded sets.                          *)

MaxCands == 3

SelRisks == {0, PENALTY, ScoreUnit}
SelDiscomforts == {1199, 1201, 1260, 1650, 2400}

Cand(dep, r, d) ==
    [departure |-> dep, risk |-> r, discomfort |-> d, refused |-> refused_flag(r, d)]

CandList(n, rs, ds) == [i \in 1..n |-> Cand(i, rs[i], ds[i])]

IdleSelect ==
    /\ sel_mode = "evening"
    /\ sel_cands = <<>>
    /\ sel_best = NoResult

Select ==
    /\ sel_best = NoResult
    /\ sel_best' = select_best_departure(sel_mode, sel_cands)
    /\ UNCHANGED <<sel_mode, sel_cands, scoreVars, runVars, restVars>>

----------------------------------------------------------------------------
(* 4.2 Slot evaluator: run_forecast *)

\* lines 11-14: the defaults of the constructor
morning_latest_departure == 585         \* "09:45"
morning_max_early_delta_min == 45
evening_first_departure == 750          \* "12:30"
evening_max_late_delta_min == 30

DefaultWindows ==
    /\ MORNING_LATEST_DEPARTURE = morning_latest_departure
    /\ MORNING_MAX_EARLY_DELTA_MIN = morning_max_early_delta_min
    /\ EVENING_FIRST_DEPARTURE = evening_first_departure
    /\ EVENING_MAX_LATE_DELTA_MIN = evening_max_late_delta_min

SLOT_MINUTES == 15                      \* timedelta(minutes=15)

KeyError == [raised |-> "KeyError"]

RECURSIVE MaxSeq(_)
MaxSeq(s) == IF Len(s) = 1 THEN s[1] ELSE Max(Head(s), MaxSeq(Tail(s)))

\* lines 141-143: NOW rounded up to the next slot boundary
round_up_now(now) ==
    IF now % SLOT_MINUTES # 0
    THEN now + (SLOT_MINUTES - (now % SLOT_MINUTES))
    ELSE now

\* lines 145-156: the window of a mode
earliest_departure(mode) ==
    IF mode = "morning"
    THEN MORNING_LATEST_DEPARTURE - MORNING_MAX_EARLY_DELTA_MIN
    ELSE EVENING_FIRST_DEPARTURE

latest_departure(mode) ==
    IF mode = "morning"
    THEN MORNING_LATEST_DEPARTURE
    ELSE EVENING_FIRST_DEPARTURE + EVENING_MAX_LATE_DELTA_MIN

\* faulty variant: the window start ignores the current time
start_time_ignores_now(mode, now) == earliest_departure(mode)

\* lines 149, 155
start_time(mode, now) == Max(round_up_now(now), earliest_departure(mode))
end_time(mode) == latest_departure(mode)

\* lines 160-164: the while loop
RECURSIVE slots_from(_, _)
slots_from(t, end) ==
    IF t <= end THEN <<t>> \o slots_from(t + SLOT_MINUTES, end) ELSE <<>>

\* line 171: arrival time at the i-th waypoint (i counted from 1)
segment_time(dt, i) == dt + SLOT_MINUTES * (i - 1)

\* faulty variant: a missing observation is scored as zero instead of dropping the slot
evaluate_slot_default_zero(tbl, mode, level, dt) ==
    LET order == coord_order(mode)
        has(i) == segment_time(dt, i) \in DOMAIN tbl[order[i]]
        w(i) == tbl[order[i]][segment_time(dt, i)]
        risk_scores == [i \in 1..Len(order) |->
            IF has(i)
            THEN compute_risk(mode, w(i).wind_speed_10m, w(i).precipitation,
                              w(i).temperature_2m, w(i).weather_code,
                              w(i).wind_direction_10m, order[i])
            ELSE 0]
        discomfort_scores == [i \in 1..Len(order) |->
            IF has(i)
            THEN compute_discomfort(w(i).temperature_2m, w(i).precipitation,
                                    w(i).wind_speed_10m, level)
            ELSE 0]
    IN  [departure |-> dt,
         risk |-> MaxSeq(risk_scores),
         discomfort |-> MaxSeq(discomfort_scores),
         refused |-> refused_flag(MaxSeq(risk_scores), MaxSeq(discomfort_scores))]

\* faulty variant: discomfort is taken at the destination only and refusal needs both
\* scores above the threshold
evaluate_slot_last_and(tbl, mode, level, dt) ==
    LET order == coord_order(mode)
        complete == \A i \in 1..Len(order) :
                        segment_time(dt, i) \in DOMAIN tbl[order[i]]
        w(i) == tbl[order[i]][segment_time(dt, i)]
        risk_scores == [i \in 1..Len(order) |->
            compute_risk(mode, w(i).wind_speed_10m, w(i).precipitation,
                         w(i).temperature_2m, w(i).weather_code,
                         w(i).wind_direction_10m, order[i])]
        discomfort_scores == [i \in 1..Len(order) |->
            compute_discomfort(w(i).temperature_2m, w(i).precipitation,
                               w(i).wind_speed_10m, level)]
    IN  IF ~complete THEN KeyError
        ELSE [departure |-> dt,
              risk |-> MaxSeq(risk_scores),
              discomfort |-> discomfort_scores[Len(order)],
              refused |-> /\ MaxSeq(risk_scores) > RISK_SCORE_THRESHOLD
                          /\ discomfort_scores[Len(order)] > RISK_SCORE_THRESHOLD]

\* lines 171-189: the body of the loop over departure_times; the candidate, or
\* KeyError when an observation is missing
evaluate_slot(tbl, mode, level, dt) ==
    LET order == coord_order(mode)
        complete == \A i \in 1..Len(order) :
                        segment_time(dt, i) \in DOMAIN tbl[order[i]]
        w(i) == tbl[order[i]][segment_time(dt, i)]
        risk_scores == [i \in 1..Len(order) |->
            compute_risk(mode, w(i).wind_speed_10m, w(i).precipitation,
                         w(i).temperature_2m, w(i).weather_code,
                         w(i).wind_direction_10m, order[i])]
        discomfort_scores == [i \in 1..Len(order) |->
            compute_discomfort(w(i).temperature_2m, w(i).precipitation,
                               w(i).wind_speed_10m, level)]
    IN  IF ~complete THEN KeyError
        ELSE [departure |-> dt,
              risk |-> MaxSeq(risk_scores),
              discomfort |-> MaxSeq(discomfort_scores),
              refused |-> refused_flag(MaxSeq(risk_scores),
                                       MaxSeq(discomfort_scores))]

----------------------------------------------------------------------------
(* The forecasts the provider may return.  The table is restricted to the  *)
(* timestamps a run of the mode can read (window start .. window end + 45  *)
(* minutes); one kind of weather holds over the region until a front       *)
(* brings another, and the series of one waypoint may have a run of        *)
(* dropped (null) slots.                                                   *)

MaxGapLen == 2

Fair  == [wind_speed_10m |-> 10, precipitation |-> 0, temperature_2m |-> 14,
          weather_code |-> 0, wind_direction_10m |-> 300]
Gusty == [wind_speed_10m |-> 32, precipitation |-> 0, temperature_2m |-> 14,
          weather_code |-> 2, wind_direction_10m |-> 200]
Storm == [wind_speed_10m |-> 20, precipitation |-> 50, temperature_2m |-> 14,
          weather_code |-> 95, wind_direction_10m |-> 300]
ObsKinds == {Fair, Gusty, Storm}

TableTimes(mode) ==
    { t \in Min(earliest_departure(mode), latest_departure(mode)) ..
            (latest_departure(mode) + SLOT_MINUTES * (Len(coord_order(mode)) - 1)) :
        t % SLOT_MINUTES = 0 }

ForecastTable(mode, base, frontT, frontK, gapWp, gapFrom, gapLen) ==
    [pt \in Waypoints |->
        [t \in { u \in TableTimes(mode) :
                   ~(pt = gapWp /\ gapFrom <= u /\ u < gapFrom + SLOT_MINUTES * gapLen) }
            |-> IF t >= frontT THEN frontK ELSE base]]

ForecastTables(mode) ==
    { ForecastTable(mode, base, frontT, frontK, gapWp, gapFrom, gapLen) :
        base \in ObsKinds, frontT \in TableTimes(mode), frontK \in ObsKinds,
        gapWp \in Waypoints, gapFrom \in TableTimes(mode), gapLen \in 0..MaxGapLen }

NowChoices == {420, 550, 760}           \* 07:00, 09:10, 12:40
GearChoices == {0 - 1, 1}

EmptyTable == [pt \in Waypoints |-> <<>>]

IdleRun ==
    /\ MODE = "evening"
    /\ GEAR_LEVEL = 0 - 1
    /\ NOW = 420
    /\ data = EmptyTable
    /\ pc = "idle"
    /\ departure_times = <<>>
    /\ levels = <<>>
    /\ dt_idx = 1
    /\ candidates = <<>>
    /\ options = <<>>

\* lines 134-136: get_coords succeeds and fetch_forecast returns the table
Fetch ==
    /\ pc = "fetch"
    /\ ~get_coords_raises(MODE)
    /\ data' \in ForecastTables(MODE)
    /\ pc' = "window"
    /\ UNCHANGED <<MODE, GEAR_LEVEL, NOW, departure_times, levels, dt_idx,
                   candidates, options, scoreVars, selectVars, restVars>>

\* line 134: get_coords raises KeyError, which leaves run_forecast
GetCoordsRaises ==
    /\ pc = "fetch"
    /\ get_coords_raises(MODE)
    /\ pc' = "raised"
    /\ UNCHANGED <<MODE, GEAR_LEVEL, NOW, data, departure_times, levels, dt_idx,
                   candidates, options, scoreVars, selectVars, restVars>>

\* lines 141-168: the window, the departure times, the gear levels to try
BuildWindow ==
    /\ pc = "window"
    /\ departure_times' = slots_from(start_time(MODE, NOW), end_time(MODE))
    /\ levels' = IF GEAR_LEVEL = 0 - 1 THEN <<0, 1, 2>> ELSE <<GEAR_LEVEL>>
    /\ candidates' = <<>>
    /\ dt_idx' = 1
    /\ options' = <<>>
    /\ pc' = "eval"
    /\ UNCHANGED <<MODE, GEAR_LEVEL, NOW, data, scoreVars, selectVars, restVars>>

\* lines 170-187: one departure time whose observations are all present
EvalSlot ==
    /\ pc = "eval"
    /\ levels # <<>>
    /\ dt_idx <= Len(departure_times)
    /\ LET c == evaluate_slot(data, MODE, Head(levels), departure_times[dt_idx])
       IN  /\ c # KeyError
           /\ candidates' = Append(candidates, c)
    /\ dt_idx' = dt_idx + 1
    /\ UNCHANGED <<MODE, GEAR_LEVEL, NOW, data, pc, departure_times, levels,
                   options, scoreVars, selectVars, restVars>>

\* lines 188-189: KeyError, the slot is skipped
SkipSlot ==
    /\ pc = "eval"
    /\ levels # <<>>
    /\ dt_idx <= Len(departure_times)
    /\ evaluate_slot(data, MODE, Head(levels), departure_times[dt_idx]) = KeyError
    /\ dt_idx' = dt_idx + 1
    /\ UNCHANGED <<MODE, GEAR_LEVEL, NOW, data, pc, departure_times, levels,
                   candidates, options, scoreVars, selectVars, restVars>>

\* lines 191-193: the best candidate of the gear level, then the next level
SelectLevel ==
    /\ pc = "eval"
    /\ levels # <<>>
    /\ dt_idx > Len(departure_times)
    /\ LET best == select_best_departure(MODE, candidates)
       IN  options' = IF best # PyNone
                      THEN Append(options, [level |-> Head(levels),
                                            candidates |-> candidates,
                                            best |-> best])
                      ELSE options
    /\ levels' = Tail(levels)
    /\ candidates' = <<>>
    /\ dt_idx' = 1
    /\ UNCHANGED <<MODE, GEAR_LEVEL, NOW, data, pc, departure_times,
                   scoreVars, selectVars, restVars>>

\* lines 195-199: the result is returned
Return ==
    /\ pc = "eval"
    /\ levels = <<>>
    /\ pc' = "done"
    /\ UNCHANGED <<MODE, GEAR_LEVEL, NOW, data, departure_times, levels, dt_idx,
                   candidates, options, scoreVars, selectVars, restVars>>

----------------------------------------------------------------------------
(* 4.4 Round-trip combiner: combine_forecasts_same_gear *)

\* a result of run_forecast; the fields "data" and "coords" are only read to
\* render the text of a notification and are left out
Result(opts) == [options |-> opts]

\* subscripting None (a run_forecast that returned nothing) raises TypeError
TypeError == [raised |-> "TypeError"]

\* line 210: next((o for o in options if o["level"] == level), None)
RECURSIVE match_level(_, _)
match_level(opts, level) ==
    IF opts = <<>> THEN PyNone
    ELSE IF Head(opts).level = level THEN Head(opts)
    ELSE match_level(Tail(opts), level)

\* faulty variant: the pair is refused only when both legs are refused
combined_entry_refused_and(level, best_m, best_e) ==
    [level |-> level, morning |-> best_m, evening |-> best_e,
     total_risk |-> best_m.risk + best_e.risk,
     total_discomfort |-> best_m.discomfort + best_e.discomfort,
     refused |-> best_m.refused /\ best_e.refused]

\* lines 212-219: the pair of one gear level
combined_entry(level, best_m, best_e) ==
    [level |-> level, morning |-> best_m, evening |-> best_e,
     total_risk |-> best_m.risk + best_e.risk,
     total_discomfort |-> best_m.discomfort + best_e.discomfort,
     refused |-> best_m.refused \/ best_e.refused]

\* lines 205-219: the loop over the morning options
RECURSIVE combined_pairs(_, _)
combined_pairs(opts_m, opts_e) ==
    IF opts_m = <<>> THEN <<>>
    ELSE LET option_m == Head(opts_m)
             match == match_level(opts_e, option_m.level)
             rest == combined_pairs(Tail(opts_m), opts_e)
         IN  IF option_m.best # PyNone /\ match # PyNone /\ match.best # PyNone
             THEN <<combined_entry(option_m.level, option_m.best, match.best)>> \o rest
             ELSE rest

\* the key of line 225
pair_key(o) == Round3(o.total_risk + o.total_discomfort)

\* min(combined, key=...): the first pair with the least key
RECURSIVE MinByKey(_)
MinByKey(s) ==
    IF Len(s) = 1 THEN s[1]
    ELSE LET m == MinByKey(Tail(s))
         IN  IF pair_key(Head(s)) <= pair_key(m) THEN Head(s) ELSE m

\* faulty variant: the first pair is returned whatever its score
combine_forecasts_same_gear_first(result_m, result_e) ==
    IF result_m = PyNone THEN TypeError
    ELSE IF result_m.options = <<>> THEN PyNone
    ELSE IF result_e = PyNone THEN TypeError
    ELSE IF result_e.options = <<>> THEN PyNone
    ELSE LET combined == combined_pairs(result_m.options, result_e.options)
         IN  IF combined = <<>> THEN PyNone ELSE combined[1]

\* combine_forecasts_same_gear: the pair, PyNone, or TypeError when a result
\* that is None is subscripted (line 202, evaluated left to right)
combine_forecasts_same_gear(result_m, result_e) ==
    IF result_m = PyNone THEN TypeError
    ELSE IF result_m.options = <<>> THEN PyNone
    ELSE IF result_e = PyNone THEN TypeError
    ELSE IF result_e.options = <<>> THEN PyNone
    ELSE LET combined == combined_pairs(result_m.options, result_e.options)
         IN  IF combined = <<>> THEN PyNone ELSE MinByKey(combined)

----------------------------------------------------------------------------
(* Harness for the combiner: the options of each leg list a subset of the  *)
(* gear levels in ascending order, the scores of each best departure are   *)
(* drawn from a bounded set.                                               *)

\* <<risk, discomfort>> of a best departure
BestScores == {<<0, 300>>, <<0, 900>>, <<0, 1200>>, <<0, 1500>>, <<ScoreUnit, 300>>}

\* the option of a gear level whose best departure has the scores sc
Option(level, dep, sc) ==
    LET best == Cand(dep, sc[1], sc[2])
    IN  [level |-> level, candidates |-> <<best>>, best |-> best]

\* the options of a leg: pick[l] is <<>> when level l has no option
RECURSIVE OptionList(_, _, _)
OptionList(lvls, dep, pick) ==
    IF lvls = <<>> THEN <<>>
    ELSE (IF pick[Head(lvls)] = <<>> THEN <<>>
          ELSE <<Option(Head(lvls), dep, pick[Head(lvls)])>>)
         \o OptionList(Tail(lvls), dep, pick)

IdleCombine ==
    /\ cmb_morning = Result(<<>>)
    /\ cmb_evening = Result(<<>>)
    /\ cmb_best = NoResult

Combine ==
    /\ cmb_best = NoResult
    /\ cmb_best' = combine_forecasts_same_gear(cmb_morning, cmb_evening)
    /\ UNCHANGED <<cmb_morning, cmb_evening, scoreVars, selectVars, runVars,
                   windowVars, dayVars, fetchVars,
                   ioVars>>

----------------------------------------------------------------------------
(* 4.5 The daily run: run_and_notify_day and the notifications *)

\* a call notify.send(key, ...): the template key, the advisor that sends it
\* ("morning", "evening", or "day" for the advisor that runs the day) and the
\* gear level named in the text (None when the template names no gear)
Msg(key, sender, level) == [key |-> key, sender |-> sender, level |-> level]

IndexError == [raised |-> "IndexError"]

\* the notifications sent by a call that returns normally
Sends(msgs) == [sends |-> msgs]

\* lines 160-164 and 170-189 for one gear level: the candidates of the level
candidates_of(tbl, mode, level, now) ==
    LET dts == slots_from(start_time(mode, now), end_time(mode))
        evaluated == [i \in 1..Len(dts) |-> evaluate_slot(tbl, mode, level, dts[i])]
        Kept(c) == c # KeyError
    IN  SelectSeq(evaluated, Kept)

\* lines 166-193: the loop over the gear levels
RECURSIVE options_of(_, _, _, _)
options_of(tbl, mode, lvls, now) ==
    IF lvls = <<>> THEN <<>>
    ELSE LET cands == candidates_of(tbl, mode, Head(lvls), now)
             best == select_best_departure(mode, cands)
         IN  (IF best # PyNone
              THEN <<[level |-> Head(lvls), candidates |-> cands, best |-> best]>>
              ELSE <<>>)
             \o options_of(tbl, mode, Tail(lvls), now)

\* run_forecast after a successful fetch, as one function of the table
run_forecast(mode, gear_level, now, tbl) ==
    Result(options_of(tbl, mode,
                      IF gear_level = 0 - 1 THEN <<0, 1, 2>> ELSE <<gear_level>>,
                      now))

\* line 302: min(options, key=best risk + best discomfort), the first minimum
RECURSIVE MinByBestScore(_)
MinByBestScore(opts) ==
    IF Len(opts) = 1 THEN opts[1]
    ELSE LET m == MinByBestScore(Tail(opts))
         IN  IF Score(Head(opts).best) <= Score(m.best) THEN Head(opts) ELSE m

\* faulty variant: the gear level of the pair is ignored, the leg picks its own
notify_forecast_own_gear(mode, forecast_result, gear) ==
    IF forecast_result = PyNone THEN TypeError
    ELSE IF forecast_result.options = <<>>
         THEN Sends(<<Msg("no_clear_departure_found", mode, None)>>)
    ELSE Sends(<<Msg(IF mode = "morning" THEN "best_departure" ELSE "best_return",
                     mode, MinByBestScore(forecast_result.options).level)>>)

\* faulty variant: a leg without options is passed over in silence
notify_forecast_skips_empty(mode, forecast_result, gear) ==
    IF forecast_result = PyNone THEN TypeError
    ELSE IF forecast_result.options = <<>> THEN Sends(<<>>)
    ELSE LET overall == IF gear = None
                        THEN MinByBestScore(forecast_result.options)
                        ELSE match_level(forecast_result.options, gear)
         IN  IF overall = PyNone THEN IndexError
             ELSE Sends(<<Msg(IF mode = "morning" THEN "best_departure"
                                                   ELSE "best_return",
                              mode, overall.level)>>)

\* notify_forecast of the advisor of a mode: the notifications it sends, or the
\* exception it raises (TypeError at line 293 when forecast_result is None,
\* IndexError at line 304 when no option has the gear level)
notify_forecast(mode, forecast_result, gear) ==
    IF forecast_result = PyNone THEN TypeError
    ELSE IF forecast_result.options = <<>>
         THEN Sends(<<Msg("no_clear_departure_found", mode, None)>>)
    ELSE LET overall == IF gear = None
                        THEN MinByBestScore(forecast_result.options)
                        ELSE match_level(forecast_result.options, gear)
         IN  IF overall = PyNone THEN IndexError
             ELSE Sends(<<Msg(IF mode = "morning" THEN "best_departure"
                                                   ELSE "best_return",
                              mode, overall.level)>>)

\* notify_forecast_summary: the notification about the pair
notify_forecast_summary(forecast_result) ==
    IF forecast_result.refused
    THEN Sends(<<Msg("no_round_trip_departure", "day", None)>>)
    ELSE Sends(<<Msg("round_trip_departure", "day", forecast_result.level)>>)

\* the forecasts a leg may receive: the regional weather (a mild calm
\* day included) with a front, and possibly a waypoint whose series came
\* back without any usable row
Mild == [wind_speed_10m |-> 10, precipitation |-> 0, temperature_2m |-> 22,
         weather_code |-> 0, wind_direction_10m |-> 300]
DayKinds == ObsKinds \cup {Mild}

DayTables(mode) ==
    { ForecastTable(mode, base, frontT, frontK, "E42",
                    Min(earliest_departure(mode), latest_departure(mode)), gapLen) :
        base \in DayKinds, frontT \in TableTimes(mode), frontK \in DayKinds,
        gapLen \in {0, Cardinality(TableTimes(mode))} }

IdleDay ==
    /\ day_pc = "idle"
    /\ morning_result = NoResult
    /\ evening_result = NoResult
    /\ combo = NoResult
    /\ sent = <<>>

LegResult(leg) == IF leg = "morning" THEN morning_result ELSE evening_result

\* lines 272-273: run_forecast of a leg whose fetch succeeds
LegForecast(leg) ==
    /\ day_pc = leg
    /\ \E tbl \in DayTables(leg) :
          LET r == run_forecast(leg, GEAR_LEVEL, NOW, tbl)
          IN  /\ morning_result' = IF leg = "morning" THEN r ELSE morning_result
              /\ evening_result' = IF leg = "evening" THEN r ELSE evening_result
    /\ day_pc' = IF leg = "morning" THEN "evening" ELSE "combine"
    /\ UNCHANGED <<combo, sent, scoreVars, selectVars, runVars, windowVars,
                   combineVars, fetchVars,
                   ioVars>>

\* lines 272-273 with lines 137-139: the fetch raises, run_forecast sends
\* weather_api_error and returns None
LegFetchFails(leg) ==
    /\ day_pc = leg
    /\ morning_result' = IF leg = "morning" THEN PyNone ELSE morning_result
    /\ evening_result' = IF leg = "evening" THEN PyNone ELSE evening_result
    /\ sent' = Append(sent, Msg("weather_api_error", leg, None))
    /\ day_pc' = IF leg = "morning" THEN "evening" ELSE "combine"
    /\ UNCHANGED <<combo, scoreVars, selectVars, runVars, windowVars, combineVars,
                   fetchVars,
                   ioVars>>

\* lines 277-279
CombineLegs ==
    /\ day_pc = "combine"
    /\ LET c == combine_forecasts_same_gear(morning_result, evening_result)
       IN  IF c = TypeError
           THEN /\ day_pc' = "raised"
                /\ UNCHANGED combo
           ELSE /\ combo' = c
                /\ day_pc' = IF c # PyNone THEN "summary" ELSE "notify_morning"
    /\ UNCHANGED <<morning_result, evening_result, sent, scoreVars, selectVars,
                   runVars, windowVars, combineVars, fetchVars,
                   ioVars>>

\* line 281
NotifySummary ==
    /\ day_pc = "summary"
    /\ sent' = sent \o notify_forecast_summary(combo).sends
    /\ day_pc' = "notify_morning"
    /\ UNCHANGED <<morning_result, evening_result, combo, scoreVars, selectVars,
                   runVars, windowVars, combineVars, fetchVars,
                   ioVars>>

\* lines 282-283 and 286-287: notify_forecast of a leg, with the gear of the
\* pair when there is one
NotifyLeg(leg) ==
    /\ day_pc = IF leg = "morning" THEN "notify_morning" ELSE "notify_evening"
    /\ LET gear == IF combo # PyNone THEN combo.level ELSE None
           out == notify_forecast(leg, LegResult(leg), gear)
       IN  IF out \in {TypeError, IndexError}
           THEN /\ day_pc' = "raised"
                /\ UNCHANGED sent
           ELSE /\ sent' = sent \o out.sends
                /\ day_pc' = IF leg = "morning" THEN "notify_evening" ELSE "done"
    /\ UNCHANGED <<morning_result, evening_result, combo, scoreVars, selectVars,
                   runVars, windowVars, combineVars, fetchVars,
                   ioVars>>

----------------------------------------------------------------------------
(* Forecast access: src/weather_api.py                                     *)
(*                                                                         *)
(* A JSON value of a series is a record [t, v]: t is its JSON type, v the  *)
(* number in thousandths (1 or 0 for the booleans true and false).         *)
(* Timestamps                                                              *)
(* are minutes of the day; the local time zone is a whole number of hours  *)
(* from UTC, so a timestamp and its local form name the same minute and    *)
(* the same hour.  Each advisor owns a new WeatherAPI (line 46 of          *)
(* ride_weather_advisor.py) and fetches once, so the cache is empty at the *)
(* call; the parsed table is what gets cached and returned.                *)

retries == 3                    \* _fetch_batch(..., retries=3)

JNum(x) == [t |-> "number", v |-> x]
JNull == [t |-> "null", v |-> 0]

MINUTELY_FIELDS ==
    <<"precipitation", "temperature_2m", "wind_speed_10m", "wind_direction_10m",
      "weather_code">>
REQUIRED == { MINUTELY_FIELDS[i] : i \in 1..Len(MINUTELY_FIELDS) }

\* round(x, 2) of a number given in thousandths
Round2(x) == ((x + 5) \div 10) * 10

\* lines 123-127: None when the series is absent, empty or too short
\* (i counted from 1)
get_value(m15, field, i) ==
    IF m15[field] = <<>> \/ i > Len(m15[field]) THEN JNull ELSE m15[field][i]

\* line 143: isinstance(v, (int, float)); bool is a subclass of int
is_number(v) == v.t \in {"number", "boolean"}

\* line 144: round(float(v), 2); float(True) is 1.0
to_float(v) == IF v.t = "boolean" THEN 1000 * v.v ELSE v.v

\* faulty variant: a null or missing value is stored as 0
to_local_times_default_zero(raw_forecast) ==
    [name \in DOMAIN raw_forecast |->
        LET m15 == raw_forecast[name].minutely_15
            hourly == raw_forecast[name].hourly
            idx == 1..Len(m15.time)
        IN  [t \in { m15.time[i] : i \in idx } |->
                LET i == CHOOSE j \in idx : m15.time[j] = t
                    hkey == t - (t % 60)
                IN  [f \in REQUIRED \cup (IF hkey \in DOMAIN hourly
                                          THEN {"precipitation_probability"} ELSE {}) |->
                        IF f = "precipitation_probability" THEN hourly[hkey]
                        ELSE IF is_number(get_value(m15, f, i))
                             THEN Round2(to_float(get_value(m15, f, i)))
                             ELSE 0]]]

\* _to_local_times: the rows whose five fields are all numbers, rounded to two
\* decimals, with the hourly probability of the row's hour when there is one
to_local_times(raw_forecast) ==
    [name \in DOMAIN raw_forecast |->
        LET m15 == raw_forecast[name].minutely_15
            hourly == raw_forecast[name].hourly
            idx == 1..Len(m15.time)
            kept == { i \in idx :
                        /\ \A f \in REQUIRED : get_value(m15, f, i) # JNull
                        /\ \A f \in REQUIRED : is_number(get_value(m15, f, i)) }
        IN  [t \in { m15.time[i] : i \in kept } |->
                LET i == CHOOSE j \in kept : m15.time[j] = t
                    hkey == t - (t % 60)
                IN  [f \in REQUIRED \cup (IF hkey \in DOMAIN hourly
                                          THEN {"precipitation_probability"} ELSE {}) |->
                        IF f = "precipitation_probability" THEN hourly[hkey]
                        ELSE Round2(to_float(get_value(m15, f, i)))]]]

----------------------------------------------------------------------------
(* The payloads of the provider: MaxRows quarter-hour rows per waypoint;   *)
(* the series of one field of one waypoint holds any values and may be     *)
(* short or absent, all other series are full and numeric.                 *)

MaxRows == 2

FirstRow == 480                 \* 08:00, the time of the first row

JValues == {JNum(0), JNum(1237), [t |-> "boolean", v |-> 1], JNull,
            [t |-> "string", v |-> 0]}
JSeries == UNION { [1..n -> JValues] : n \in 0..MaxRows }
FullSeries == [i \in 1..MaxRows |-> JNum(14004)]

RawWaypoint(series, field, hourly) ==
    [minutely_15 |-> [f \in REQUIRED \cup {"time"} |->
                        IF f = "time"
                        THEN [i \in 1..MaxRows |-> FirstRow + SLOT_MINUTES * (i - 1)]
                        ELSE IF f = field THEN series ELSE FullSeries],
     hourly |-> hourly]

\* the payload whose series are all full and numeric, without hourly data
CleanRaw == [name \in Waypoints |-> RawWaypoint(FullSeries, "time", <<>>)]

IdleFetch ==
    /\ fetch_pc = "idle"
    /\ attempt = 0
    /\ events = <<>>
    /\ raw = NoResult
    /\ parsed = NoResult

\* lines 85-87 raise a requests.RequestException: retried after a sleep of one
\* second (lines 92-96), re-raised at the last attempt
AttemptFails ==
    /\ fetch_pc = "attempt"
    /\ events' = Append(events, "RequestException")
    /\ fetch_pc' = IF attempt = retries - 1 THEN "raised" ELSE "sleep"
    /\ UNCHANGED <<attempt, raw, parsed, scoreVars, selectVars, runVars,
                   windowVars, combineVars, dayVars,
                   ioVars>>

\* line 96 and the next iteration of the loop
Sleep ==
    /\ fetch_pc = "sleep"
    /\ events' = Append(events, "sleep")
    /\ attempt' = attempt + 1
    /\ fetch_pc' = "attempt"
    /\ UNCHANGED <<raw, parsed, scoreVars, selectVars, runVars,
                   windowVars, combineVars, dayVars,
                   ioVars>>

\* lines 88-91: the body is not a list of one forecast per waypoint; the
\* ValueError is not a RequestException and leaves _fetch_batch at once
AttemptBadFormat ==
    /\ fetch_pc = "attempt"
    /\ events' = Append(events, "ValueError")
    /\ fetch_pc' = "raised"
    /\ UNCHANGED <<attempt, raw, parsed, scoreVars, selectVars, runVars,
                   windowVars, combineVars, dayVars,
                   ioVars>>

\* lines 85-89: the request succeeds and the forecasts are returned
AttemptSucceeds ==
    /\ fetch_pc = "attempt"
    /\ events' = Append(events, "ok")
    /\ \E name \in Waypoints, field \in REQUIRED, series \in JSeries,
          hourly \in {<<>>, [h \in {FirstRow} |-> 40]} :
          raw' = [CleanRaw EXCEPT ![name] = RawWaypoint(series, field, hourly)]
    /\ fetch_pc' = "parse"
    /\ UNCHANGED <<attempt, parsed, scoreVars, selectVars, runVars,
                   windowVars, combineVars, dayVars,
                   ioVars>>

\* lines 60-63 of fetch_forecast
Parse ==
    /\ fetch_pc = "parse"
    /\ parsed' = to_local_times(raw)
    /\ fetch_pc' = "done"
    /\ UNCHANGED <<attempt, events, raw, scoreVars, selectVars, runVars,
                   windowVars, combineVars, dayVars,
                   ioVars>>

----------------------------------------------------------------------------
(* Notification sink: src/services/notification_service.py                 *)
(*                                                                         *)
(* A text is the sequence of its characters; the texts of the harness are  *)
(* made of the letter "a" and of spaces.                                   *)

MAX_TITLE_LENGTH == 256
MAX_DESCRIPTION_LENGTH == 4096
MAX_FIELD_NAME_LENGTH == 256
MAX_FIELD_VALUE_LENGTH == 1024

placeholder == <<".", ".", ".">>            \* the default "..."

\* str.rstrip() of a text whose only whitespace is the space
RECURSIVE rstrip(_)
rstrip(text) ==
    IF text = <<>> \/ text[Len(text)] # " " THEN text
    ELSE rstrip(SubSeq(text, 1, Len(text) - 1))

\* smart_truncate, lines 15-26; rfind gives the index, counted from 0, of the
\* last space of the cut text, which is also the number of characters kept
smart_truncate(text, max_length) ==
    IF Len(text) <= max_length THEN text
    ELSE LET truncated == SubSeq(text, 1, max_length)
             spaces == { i \in 1..Len(truncated) : truncated[i] = " " }
             last_space == IF spaces = {} THEN 0 - 1
                           ELSE (CHOOSE i \in spaces : \A j \in spaces : j <= i) - 1
             cut == IF last_space # 0 - 1 THEN SubSeq(truncated, 1, last_space)
                                          ELSE truncated
         IN  rstrip(cut) \o placeholder

\* lines 57-65: one item of fields, a pair <<name, value>>
validate_field(field) ==
    LET field_name == IF Len(field[1]) > MAX_FIELD_NAME_LENGTH
                      THEN smart_truncate(field[1], MAX_FIELD_NAME_LENGTH)
                      ELSE field[1]
        field_value == IF Len(field[2]) > MAX_FIELD_VALUE_LENGTH
                       THEN smart_truncate(field[2], MAX_FIELD_VALUE_LENGTH)
                       ELSE field[2]
    IN  <<field_name, field_value>>

\* _validate_embed_content, lines 40-67; fields is the list of the items of
\* the dict, in insertion order
validate_embed_content(title, description, fields) ==
    [title |-> IF title # <<>> /\ Len(title) > MAX_TITLE_LENGTH
               THEN smart_truncate(title, MAX_TITLE_LENGTH) ELSE title,
     description |-> IF description # <<>> /\ Len(description) > MAX_DESCRIPTION_LENGTH
                     THEN smart_truncate(description, MAX_DESCRIPTION_LENGTH)
                     ELSE description,
     fields |-> [k \in 1..Len(fields) |-> validate_field(fields[k])]]

\* Harness: texts of about the length of their limit; Words have no space,
\* Texts have none, one at the limit, or two just before it
MaxOver == 2

Text(n, spaces) == [i \in 1..n |-> IF i \in spaces THEN " " ELSE "a"]

Texts(limit) ==
    { Text(limit + over, spaces) :
        over \in 0..MaxOver, spaces \in {{}, {limit}, {limit - 1, limit}} }
Words(limit) == { Text(limit + over, {}) : over \in 0..MaxOver }

IdleEmbed ==
    /\ emb_in = [title |-> <<>>, description |-> <<>>, fields |-> <<>>]
    /\ emb_out = NoResult

Validate ==
    /\ emb_out = NoResult
    /\ emb_out' = validate_embed_content(emb_in.title, emb_in.description,
                                         emb_in.fields)
    /\ UNCHANGED <<emb_in, scoreVars, selectVars, runVars, windowVars,
                   combineVars, dayVars, fetchVars, mainVars>>

----------------------------------------------------------------------------
(* The loop of src/main.py, lines 85-114                                   *)
(*                                                                         *)
(* A datetime is a record [date, minute, aware]: the day, the minute of    *)
(* the day, and whether it carries a time zone.  datetime.now() (line 86)  *)
(* is naive; the class times of get_first_and_last_class are made aware by *)
(* _ensure_aware (src/agenda_utils.py, lines 10-16 and 43-65).             *)

Unbound == [unbound |-> TRUE]           \* a name that was never assigned
PyFalse == [false |-> TRUE]             \* the value False

DateTime(d, m, aware) == [date |-> d, minute |-> m, aware |-> aware]

trip_duration_minutes == 45             \* main.py line 90
MorningLeadMinutes == 180               \* timedelta(hours=3), line 97

\* comparing an aware datetime with a naive one raises TypeError
datetime_ge_raises(a, b) == a.aware # b.aware
datetime_ge(a, b) ==
    a.date > b.date \/ (a.date = b.date /\ a.minute >= b.minute)

\* FileService.load_json, lines 30-44: the cached object when there is one,
\* else the content of the file ({} when the file is absent)
load_json == IF status_cache # NoResult THEN status_cache.data ELSE status_file

\* has_notification_been_sent, lines 41-44; the set holds the keys stored
\* with the value true
has_notification_been_sent(today) == today \in load_json

\* Harness of the loop
MaxDay == 2
MinuteChoices == {240, 300, 480}            \* 04:00, 05:00, 08:00
FirstClassChoices == {490, 495}             \* 08:10, 08:15
LastClassChoices == {960, 980}              \* 16:00, 16:20

IdleMain ==
    /\ main_pc = "idle"
    /\ main_now = DateTime(1, 0, FALSE)
    /\ status_file = {}
    /\ status_cache = NoResult
    /\ first_class = Unbound
    /\ last_class = Unbound
    /\ main_error = PyNone

IdleIO == IdleEmbed /\ IdleMain

\* lines 86-88: a new iteration reads the clock and tests the status
LoopTop ==
    /\ main_pc = "top"
    /\ \E d \in 1..MaxDay, m \in MinuteChoices :
          /\ datetime_ge(DateTime(d, m, FALSE), main_now)
          /\ main_now' = DateTime(d, m, FALSE)
          /\ main_pc' = IF has_notification_been_sent(d) THEN "top" ELSE "agenda"
    /\ status_cache' = [data |-> load_json]
    /\ UNCHANGED <<status_file, first_class, last_class, main_error,
                   scoreVars, selectVars, runVars, windowVars, combineVars,
                   dayVars, fetchVars, embedVars>>

\* lines 92-93: the agenda is read; (False, False) when the day has no class
AgendaReturns ==
    /\ main_pc = "agenda"
    /\ \/ first_class' = PyFalse /\ last_class' = PyFalse
       \/ \E f \in FirstClassChoices, l \in LastClassChoices :
             /\ first_class' = DateTime(main_now.date, f, TRUE)
             /\ last_class' = DateTime(main_now.date, l, TRUE)
    /\ main_pc' = "classes"
    /\ UNCHANGED <<main_now, status_file, status_cache, main_error,
                   scoreVars, selectVars, runVars, windowVars, combineVars,
                   dayVars, fetchVars, embedVars>>

\* lines 94-95: get_first_and_last_class raises, the error is logged
AgendaRaises ==
    /\ main_pc = "agenda"
    /\ main_pc' = "logged"
    /\ UNCHANGED <<main_now, status_file, status_cache, first_class, last_class,
                   main_error, scoreVars, selectVars, runVars, windowVars,
                   combineVars, dayVars, fetchVars, embedVars>>

\* line 96: reading a name that was never assigned raises NameError
TestClasses ==
    /\ main_pc \in {"classes", "logged"}
    /\ IF first_class = Unbound
       THEN main_pc' = "crashed" /\ main_error' = [raised |-> "NameError"]
       ELSE /\ main_pc' = IF first_class # PyFalse /\ last_class # PyFalse
                          THEN "window" ELSE "top"
            /\ UNCHANGED main_error
    /\ UNCHANGED <<main_now, status_file, status_cache, first_class, last_class,
                   scoreVars, selectVars, runVars, windowVars, combineVars,
                   dayVars, fetchVars, embedVars>>

\* lines 97-114: the test of the morning window, then the daily run and the
\* update of the status (update_notification_status, lines 47-52, with
\* FileService.save_json, lines 20-28).  first_class is aware and the clock
\* value naive in every state of the loop, so the comparison raises and the
\* branches after it are never taken.
DailyRun ==
    /\ main_pc = "window"
    /\ LET morning_window_start ==
               DateTime(first_class.date, first_class.minute - MorningLeadMinutes,
                        first_class.aware)
       IN  IF datetime_ge_raises(morning_window_start, main_now)
           THEN /\ main_pc' = "crashed"
                /\ main_error' = TypeError
                /\ UNCHANGED <<status_file, status_cache>>
           ELSE IF ~datetime_ge(morning_window_start, main_now)
           THEN /\ main_pc' = "top"
                /\ UNCHANGED <<status_file, status_cache, main_error>>
           ELSE \E outcome \in {"returned", "TypeError"} :   \* run_and_notify_day
                   IF outcome = "returned"
                   THEN /\ status_file' = load_json \cup {main_now.date}
                        /\ status_cache' = [data |-> load_json \cup {main_now.date}]
                        /\ main_pc' = "top"
                        /\ UNCHANGED main_error
                   ELSE /\ main_pc' = "crashed"
                        /\ main_error' = TypeError
                        /\ UNCHANGED <<status_file, status_cache>>
    /\ UNCHANGED <<main_now, first_class, last_class,
                   scoreVars, selectVars, runVars, windowVars, combineVars,
                   dayVars, fetchVars, embedVars>>

----------------------------------------------------------------------------
(* Specifications *)

\* the scoring engine applied to drawn arguments
InitScore ==
    /\ IdleIO
    /\ sc_in \in ScoreInputs
    /\ sc_risk = <<>>
    /\ sc_disc = <<>>
    /\ IdleSelect
    /\ IdleRun
    /\ DefaultWindows
    /\ IdleCombine
    /\ IdleDay
    /\ IdleFetch

NextScore == ScoreRisk \/ ScoreDiscomfort

SpecScore == InitScore /\ [][NextScore]_vars

\* the selector applied to drawn candidate lists
InitSelect ==
    /\ IdleIO
    /\ sel_mode \in Modes
    /\ \E n \in 0..MaxCands :
          \E rs \in [1..n -> SelRisks], ds \in [1..n -> SelDiscomforts] :
              sel_cands = CandList(n, rs, ds)
    /\ sel_best = NoResult
    /\ IdleScore
    /\ IdleRun
    /\ DefaultWindows
    /\ IdleCombine
    /\ IdleDay
    /\ IdleFetch

NextSelect == Select

SpecSelect == InitSelect /\ [][NextSelect]_vars

\* one run_forecast of an advisor
Init ==
    /\ IdleIO
    /\ MODE \in Modes
    /\ GEAR_LEVEL \in GearChoices
    /\ NOW \in NowChoices
    /\ data = EmptyTable
    /\ pc = "fetch"
    /\ departure_times = <<>>
    /\ levels = <<>>
    /\ dt_idx = 1
    /\ candidates = <<>>
    /\ options = <<>>
    /\ IdleScore
    /\ IdleSelect
    /\ DefaultWindows
    /\ IdleCombine
    /\ IdleDay
    /\ IdleFetch

Next == Fetch \/ BuildWindow \/ EvalSlot \/ SkipSlot \/ SelectLevel \/ Return

Spec == Init /\ [][Next]_vars

\* one run_forecast of an advisor built with any mode and any window lengths
ModeChoices == Modes \cup {"noon"}
EarlyDeltaChoices == {morning_max_early_delta_min, 0 - SLOT_MINUTES}
LateDeltaChoices == {evening_max_late_delta_min, 0 - SLOT_MINUTES}

InitConfig ==
    /\ IdleIO
    /\ MODE \in ModeChoices
    /\ GEAR_LEVEL = 1
    /\ NOW = 420
    /\ data = EmptyTable
    /\ pc = "fetch"
    /\ departure_times = <<>>
    /\ levels = <<>>
    /\ dt_idx = 1
    /\ candidates = <<>>
    /\ options = <<>>
    /\ MORNING_LATEST_DEPARTURE = morning_latest_departure
    /\ MORNING_MAX_EARLY_DELTA_MIN \in EarlyDeltaChoices
    /\ EVENING_FIRST_DEPARTURE = evening_first_departure
    /\ EVENING_MAX_LATE_DELTA_MIN \in LateDeltaChoices
    /\ IdleScore
    /\ IdleSelect
    /\ IdleCombine
    /\ IdleDay
    /\ IdleFetch

NextConfig ==
    \/ GetCoordsRaises
    \/ Fetch
    \/ BuildWindow
    \/ EvalSlot
    \/ SkipSlot
    \/ SelectLevel
    \/ Return

SpecConfig == InitConfig /\ [][NextConfig]_vars

\* the combiner applied to drawn results of the two legs
InitCombine ==
    /\ IdleIO
    /\ \E pm \in [GearLevels -> BestScores \cup {<<>>}],
          pe \in [GearLevels -> BestScores \cup {<<>>}] :
          /\ cmb_morning = Result(OptionList(<<0, 1, 2>>, morning_latest_departure, pm))
          /\ cmb_evening = Result(OptionList(<<0, 1, 2>>, evening_first_departure, pe))
    /\ cmb_best = NoResult
    /\ IdleScore
    /\ IdleSelect
    /\ IdleRun
    /\ DefaultWindows
    /\ IdleDay
    /\ IdleFetch

NextCombine == Combine

SpecCombine == InitCombine /\ [][NextCombine]_vars

\* one run_and_notify_day of an advisor built with the default windows
InitDay ==
    /\ IdleIO
    /\ MODE = "evening"
    /\ GEAR_LEVEL \in GearChoices
    /\ NOW \in NowChoices
    /\ data = EmptyTable
    /\ pc = "idle"
    /\ departure_times = <<>>
    /\ levels = <<>>
    /\ dt_idx = 1
    /\ candidates = <<>>
    /\ options = <<>>
    /\ day_pc = "morning"
    /\ morning_result = NoResult
    /\ evening_result = NoResult
    /\ combo = NoResult
    /\ sent = <<>>
    /\ IdleScore
    /\ IdleSelect
    /\ IdleCombine
    /\ DefaultWindows
    /\ IdleFetch

NextDay ==
    \/ \E leg \in Modes : LegForecast(leg)
    \/ \E leg \in Modes : LegFetchFails(leg)
    \/ CombineLegs
    \/ NotifySummary
    \/ \E leg \in Modes : NotifyLeg(leg)

SpecDay == InitDay /\ [][NextDay]_vars

\* one fetch_forecast of a new WeatherAPI
InitFetch ==
    /\ IdleIO
    /\ fetch_pc = "attempt"
    /\ attempt = 0
    /\ events = <<>>
    /\ raw = NoResult
    /\ parsed = NoResult
    /\ IdleScore
    /\ IdleSelect
    /\ IdleRun
    /\ DefaultWindows
    /\ IdleCombine
    /\ IdleDay

NextFetch == AttemptFails \/ Sleep \/ AttemptBadFormat \/ AttemptSucceeds \/ Parse

SpecFetch == InitFetch /\ [][NextFetch]_vars

\* _validate_embed_content applied to a drawn title, description and field
InitEmbed ==
    /\ \E t \in Texts(MAX_TITLE_LENGTH), d \in Words(MAX_DESCRIPTION_LENGTH),
          n \in Words(MAX_FIELD_NAME_LENGTH), v \in Texts(MAX_FIELD_VALUE_LENGTH) :
          emb_in = [title |-> t, description |-> d, fields |-> <<<<n, v>>>>]
    /\ emb_out = NoResult
    /\ IdleScore
    /\ IdleSelect
    /\ IdleRun
    /\ DefaultWindows
    /\ IdleCombine
    /\ IdleDay
    /\ IdleFetch
    /\ IdleMain

NextEmbed == Validate

SpecEmbed == InitEmbed /\ [][NextEmbed]_vars

\* the process from its first iteration; the status file is absent or left
\* by an earlier process
InitMain ==
    /\ main_pc = "top"
    /\ main_now = DateTime(1, 0, FALSE)
    /\ status_file \in {{}, {1}}
    /\ status_cache = NoResult
    /\ first_class = Unbound
    /\ last_class = Unbound
    /\ main_error = PyNone
    /\ IdleScore
    /\ IdleSelect
    /\ IdleRun
    /\ DefaultWindows
    /\ IdleCombine
    /\ IdleDay
    /\ IdleFetch
    /\ IdleEmbed

\* one run_forecast of an advisor built as lines 99-111 of main.py build it:
\* the morning anchor is the first class minus the trip, the evening anchor
\* the end of the last class, and the morning window starts at or after now
InitAgenda ==
    /\ \E f \in FirstClassChoices, l \in LastClassChoices :
          /\ MORNING_LATEST_DEPARTURE = f - trip_duration_minutes
          /\ EVENING_FIRST_DEPARTURE = l
          /\ NOW \in { m \in MinuteChoices : f - MorningLeadMinutes >= m }
    /\ MORNING_MAX_EARLY_DELTA_MIN = morning_max_early_delta_min
    /\ EVENING_MAX_LATE_DELTA_MIN = evening_max_late_delta_min
    /\ MODE \in Modes
    /\ GEAR_LEVEL = 1
    /\ data = EmptyTable
    /\ pc = "fetch"
    /\ departure_times = <<>>
    /\ levels = <<>>
    /\ dt_idx = 1
    /\ candidates = <<>>
    /\ options = <<>>
    /\ IdleScore
    /\ IdleSelect
    /\ IdleCombine
    /\ IdleDay
    /\ IdleFetch
    /\ IdleIO

SpecAgenda == InitAgenda /\ [][Next]_vars

NextMain == LoopTop \/ AgendaReturns \/ AgendaRaises \/ TestClasses \/ DailyRun

\* the loop is the only thread of the process and none of its calls waits
\* for ever (the requests have a timeout), so a step that can be taken is taken
SpecMain == InitMain /\ [][NextMain]_vars /\ WF_vars(NextMain)

----------------------------------------------------------------------------
(* Properties of the scoring engine (checked under SpecScore) *)

RiskDone == sc_risk # <<>>
DiscDone == sc_disc # <<>>
Banned   == sc_in.code \in BANNED_WMO_CODES

\* the waypoint of the call defines an arc, and the wind blows outside it
HasArc == /\ get_coords(sc_in.mode)[sc_in.pt].dir_min # None
          /\ get_coords(sc_in.mode)[sc_in.pt].dir_max # None
OutsideArc == /\ HasArc
              /\ \/ sc_in.dir < get_coords(sc_in.mode)[sc_in.pt].dir_min
                 \/ sc_in.dir > get_coords(sc_in.mode)[sc_in.pt].dir_max

WindTriggered == /\ sc_in.ws > MAX_ACCEPTABLE_wind_speed_10m
                 /\ (OutsideArc \/ sc_in.ws > MAX_TOLERATED_WIND_WITH_GOOD_DIRECTION)
RainTriggered == sc_in.p > MAX_ACCEPTABLE_RAIN
ColdTriggered == sc_in.T < MIN_ACCEPTABLE_TEMP
Count(b) == IF b THEN 1 ELSE 0
OtherPenalties == Count(RainTriggered) + Count(ColdTriggered)

\* C5: whenever the weather code is banned, compute_risk returns exactly 1.0,
\* for every waypoint and every other argument.
C5_BannedCodeIsOne ==
    (RiskDone /\ Banned) => sc_risk[1] = ScoreUnit

\* C5 witness: a banned code at a waypoint without arc, calm and warm
\* otherwise, scored 1.0.
C5_Witness ==
    /\ RiskDone /\ Banned /\ ~HasArc
    /\ ~WindTriggered /\ ~RainTriggered /\ ~ColdTriggered
    /\ sc_risk[1] = ScoreUnit

\* C6: compute_risk and compute_discomfort both return a value in [0, 1] for
\* arbitrary finite arguments, negative precipitation included.
C6_ScoresInUnitInterval ==
    /\ RiskDone => (0 <= sc_risk[1] /\ sc_risk[1] <= ScoreUnit)
    /\ DiscDone => (0 <= sc_disc[1] /\ sc_disc[1] <= ScoreUnit)

\* C7: for a code that is not banned, compute_risk is min(1.0, 0.6 * k), k the
\* number of triggered penalties among wind, rain and cold; a waypoint without
\* arc never has the wind outside its arc.
C7_RiskIsPenaltyCount ==
    (RiskDone /\ ~Banned) =>
        sc_risk[1] = Min(ScoreUnit,
                         PENALTY * (Count(WindTriggered) + OtherPenalties))

\* C7 witness: at a waypoint without arc, wind between the two thresholds and
\* rain above its maximum give one penalty only (0.6).
C7_Witness ==
    /\ RiskDone /\ ~Banned /\ ~HasArc
    /\ sc_in.ws > MAX_ACCEPTABLE_wind_speed_10m
    /\ sc_in.ws <= MAX_TOLERATED_WIND_WITH_GOOD_DIRECTION
    /\ RainTriggered /\ ~ColdTriggered
    /\ sc_risk[1] = PENALTY

JustAboveTolerated == sc_in.ws = MAX_TOLERATED_WIND_WITH_GOOD_DIRECTION + 1
BetweenThresholds  == /\ sc_in.ws > MAX_ACCEPTABLE_wind_speed_10m
                      /\ sc_in.ws <= MAX_TOLERATED_WIND_WITH_GOOD_DIRECTION

\* C8 as stated: with an arc, a code that is not banned and a wind speed just
\* above the max-tolerated-with-good-direction threshold, the wind penalty is
\* part of the risk when the direction is outside the arc and is not triggered
\* when the direction is inside the arc.
C8_Original ==
    (RiskDone /\ ~Banned /\ HasArc /\ JustAboveTolerated) =>
        /\ OutsideArc =>
              sc_risk[1] = Min(ScoreUnit, PENALTY * (1 + OtherPenalties))
        /\ ~OutsideArc =>
              sc_risk[1] = Min(ScoreUnit, PENALTY * OtherPenalties)

\* C8 amended: with an arc, a code that is not banned and a wind speed above
\* the max-acceptable threshold but not above the max-tolerated-with-good-
\* direction threshold, the wind penalty is part of the risk when the direction
\* is outside the arc and is not triggered when it is inside the arc.
C8_DirectionGate ==
    (RiskDone /\ ~Banned /\ HasArc /\ BetweenThresholds) =>
        /\ OutsideArc =>
              sc_risk[1] = Min(ScoreUnit, PENALTY * (1 + OtherPenalties))
        /\ ~OutsideArc =>
              sc_risk[1] = Min(ScoreUnit, PENALTY * OtherPenalties)

\* C8 witness: wind between the thresholds blowing inside the arc, nothing
\* else triggered, risk 0.
C8_Witness ==
    /\ RiskDone /\ ~Banned /\ HasArc /\ BetweenThresholds /\ ~OutsideArc
    /\ OtherPenalties = 0
    /\ sc_risk[1] = 0

----------------------------------------------------------------------------
(* Properties of the selector (checked under SpecSelect) *)

SelDone == sel_best # NoResult
CandSet == { sel_cands[i] : i \in 1..Len(sel_cands) }

\* the minimum combined score of the list
MinScore == CHOOSE m \in { Score(c) : c \in CandSet } :
                \A c \in CandSet : m <= Score(c)

\* the candidates within the tolerance of a score
NearScore(m) == { c \in CandSet : Abs(Score(c) - m) <= RISK_SCORE_TOLERANCE }

Latest(S)   == CHOOSE c \in S : \A e \in S : e.departure <= c.departure
Earliest(S) == CHOOSE c \in S : \A e \in S : c.departure <= e.departure

\* the candidate ranked first by (score rounded to 3 decimals, departure)
Lead == CHOOSE c \in CandSet :
            \A e \in CandSet \ {c} : KeyLess(SortKey(c), SortKey(e))

AllWithinTolerance ==
    \A a, b \in CandSet : Abs(Score(a) - Score(b)) <= RISK_SCORE_TOLERANCE

\* C2: in morning mode, for a non-empty list, the selector returns the latest
\* candidate among those within the tolerance of the minimum combined score.
C2_MorningLatestNearMin ==
    (SelDone /\ sel_mode = "morning" /\ sel_cands # <<>>) =>
        sel_best = Latest(NearScore(MinScore))

\* C3 as stated: in evening mode, for a non-empty list, the selector returns
\* the earliest candidate among those within the tolerance of the minimum
\* combined score.
C3_Original ==
    (SelDone /\ sel_mode = "evening" /\ sel_cands # <<>>) =>
        sel_best = Earliest(NearScore(MinScore))

\* C3 amended: in evening mode, for a non-empty list, the selector returns the
\* earliest candidate among those within the tolerance of the combined score of
\* the candidate ranked first by (combined score rounded to 3 decimals,
\* departure).
C3_EveningEarliestNearLead ==
    (SelDone /\ sel_mode = "evening" /\ sel_cands # <<>>) =>
        sel_best = Earliest(NearScore(Score(Lead)))

\* C3 witness: an evening selection where the first-ranked candidate does not
\* have the minimum score, and the returned candidate lies outside the
\* tolerance of the minimum score.
C3_Witness ==
    /\ SelDone /\ sel_mode = "evening" /\ sel_cands # <<>>
    /\ Score(Lead) # MinScore
    /\ sel_best \notin NearScore(MinScore)
    /\ sel_best = Earliest(NearScore(Score(Lead)))

\* C4: when all combined scores lie within the tolerance of one another, the
\* selector returns the latest candidate in morning mode and the earliest
\* candidate in evening mode.
C4_TieBreakByMode ==
    (SelDone /\ sel_cands # <<>> /\ AllWithinTolerance) =>
        /\ sel_mode = "morning" => sel_best = Latest(CandSet)
        /\ sel_mode = "evening" => sel_best = Earliest(CandSet)

\* C4 witness: two or more candidates with different scores, all within the
\* tolerance, and the returned one does not have the minimum score.
C4_Witness ==
    /\ SelDone /\ Len(sel_cands) >= 2 /\ AllWithinTolerance
    /\ Score(sel_best) # MinScore
    /\ sel_best = (IF sel_mode = "morning" THEN Latest(CandSet)
                                           ELSE Earliest(CandSet))

----------------------------------------------------------------------------
(* Properties of run_forecast (checked under Spec) *)

SeqSet(s) == { s[i] : i \in 1..Len(s) }
WaypointIdx == 1..Len(coord_order(MODE))

\* the observation the route meets at its i-th waypoint when leaving at dt
HasObs(dt, i) == segment_time(dt, i) \in DOMAIN data[coord_order(MODE)[i]]
ObsAt(dt, i)  == data[coord_order(MODE)[i]][segment_time(dt, i)]
Complete(dt)  == \A i \in WaypointIdx : HasObs(dt, i)

Departures(cands) == { c.departure : c \in SeqSet(cands) }

\* C1: the best candidate of a gear level is never a refused one; a gear level
\* whose candidates are all refused has no best candidate.
C1_BestNeverRefused ==
    \A k \in 1..Len(options) :
        /\ ~options[k].best.refused
        /\ \E c \in SeqSet(options[k].candidates) : ~c.refused

\* C9: a departure slot of the window is in a gear level's candidate list if
\* and only if every waypoint has an observation at its arrival time; slots
\* after a dropped one are still evaluated.
C9_CandidateIffComplete ==
    /\ (pc = "eval" /\ levels # <<>>) =>
          \A j \in 1..Len(departure_times) :
              departure_times[j] \in Departures(candidates)
                  <=> (j < dt_idx /\ Complete(departure_times[j]))
    /\ \A k \in 1..Len(options) :
          \A j \in 1..Len(departure_times) :
              departure_times[j] \in Departures(options[k].candidates)
                  <=> Complete(departure_times[j])

\* C9 witness: a finished run with a gear level whose candidate list lacks a
\* slot with a missing observation and holds a later slot.
C9_Witness ==
    /\ pc = "done"
    /\ \E k \in 1..Len(options) : \E i, j \in 1..Len(departure_times) :
          /\ i < j
          /\ ~Complete(departure_times[i])
          /\ departure_times[i] \notin Departures(options[k].candidates)
          /\ departure_times[j] \in Departures(options[k].candidates)

WaypointRisk(dt, i) ==
    compute_risk(MODE, ObsAt(dt, i).wind_speed_10m, ObsAt(dt, i).precipitation,
                 ObsAt(dt, i).temperature_2m, ObsAt(dt, i).weather_code,
                 ObsAt(dt, i).wind_direction_10m, coord_order(MODE)[i])
WaypointDiscomfort(dt, i, level) ==
    compute_discomfort(ObsAt(dt, i).temperature_2m, ObsAt(dt, i).precipitation,
                       ObsAt(dt, i).wind_speed_10m, level)

\* the candidate's scores are the greatest over the waypoints, and it is
\* refused exactly when one of them exceeds the threshold
WellAggregated(c, level) ==
    /\ \E i \in WaypointIdx : c.risk = WaypointRisk(c.departure, i)
    /\ \A i \in WaypointIdx : WaypointRisk(c.departure, i) <= c.risk
    /\ \E i \in WaypointIdx : c.discomfort = WaypointDiscomfort(c.departure, i, level)
    /\ \A i \in WaypointIdx : WaypointDiscomfort(c.departure, i, level) <= c.discomfort
    /\ c.refused <=> (c.risk > RISK_SCORE_THRESHOLD
                        \/ c.discomfort > RISK_SCORE_THRESHOLD)

\* C10: every candidate has the maximum risk and the maximum discomfort (of
\* its gear level) over the waypoints, and is refused exactly when one of the
\* two exceeds the acceptance threshold.
C10_WorstWaypointDominates ==
    /\ levels # <<>> =>
          \A c \in SeqSet(candidates) : WellAggregated(c, Head(levels))
    /\ \A k \in 1..Len(options) :
          /\ \A c \in SeqSet(options[k].candidates) :
                WellAggregated(c, options[k].level)
          /\ WellAggregated(options[k].best, options[k].level)

\* C10 witness: a candidate refused for its discomfort alone, whose risk and
\* whose discomfort both differ between waypoints.
C10_Witness ==
    \E k \in 1..Len(options) : \E c \in SeqSet(options[k].candidates) :
        /\ c.refused
        /\ c.risk <= RISK_SCORE_THRESHOLD
        /\ \E i \in WaypointIdx : WaypointRisk(c.departure, i) < c.risk
        /\ \E i \in WaypointIdx :
              WaypointDiscomfort(c.departure, i, options[k].level) < c.discomfort

----------------------------------------------------------------------------
(* Properties of the departure window (checked under Spec) *)

WindowBuilt == pc \in {"eval", "done"}

\* the two ends of the window of the mode, from the settings of the advisor
WindowLow ==
    IF MODE = "morning" THEN MORNING_LATEST_DEPARTURE - MORNING_MAX_EARLY_DELTA_MIN
                        ELSE EVENING_FIRST_DEPARTURE
WindowHigh ==
    IF MODE = "morning" THEN MORNING_LATEST_DEPARTURE
                        ELSE EVENING_FIRST_DEPARTURE + EVENING_MAX_LATE_DELTA_MIN

----------------------------------------------------------------------------
(* Properties of the combiner (checked under SpecCombine) *)

CombineDone == cmb_best # NoResult

\* the gear levels listed in the options of a result
LevelsOf(result) == { result.options[i].level : i \in 1..Len(result.options) }
BestOf(result, l) ==
    (CHOOSE o \in SeqSet(result.options) : o.level = l).best

\* the gear levels with a best departure in both legs, and their rounded total
CommonLevels == LevelsOf(cmb_morning) \cap LevelsOf(cmb_evening)
PairTotal(l) ==
    Round3(BestOf(cmb_morning, l).risk + BestOf(cmb_morning, l).discomfort
           + BestOf(cmb_evening, l).risk + BestOf(cmb_evening, l).discomfort)

\* C13: the combiner considers exactly the gear levels that have a best
\* departure in both legs and returns the pair of one of them whose rounded
\* total (risk + discomfort of both legs) is minimal; it returns no pair only
\* when no gear level is present in both.
C13_MinimalCommonPair ==
    CombineDone =>
        /\ (cmb_best = PyNone) <=> (CommonLevels = {})
        /\ cmb_best # PyNone =>
              /\ cmb_best.level \in CommonLevels
              /\ cmb_best.morning = BestOf(cmb_morning, cmb_best.level)
              /\ cmb_best.evening = BestOf(cmb_evening, cmb_best.level)
              /\ \A l \in CommonLevels : PairTotal(cmb_best.level) <= PairTotal(l)

\* the example of the claim: gear 0 scores 0.3 + 0.4, gear 1 scores 0.5 + 0.1,
\* and the pair of gear 1 (total 0.6) is returned
C13_Witness ==
    /\ CombineDone
    /\ CommonLevels = {0, 1}
    /\ Score(BestOf(cmb_morning, 0)) = 900 /\ Score(BestOf(cmb_evening, 0)) = 1200
    /\ Score(BestOf(cmb_morning, 1)) = 1500 /\ Score(BestOf(cmb_evening, 1)) = 300
    /\ cmb_best # PyNone
    /\ cmb_best.level = 1
    /\ pair_key(cmb_best) = 1800

\* C14: the totals of the returned pair are the sums of the two legs' risk
\* and discomfort, and the pair is refused exactly when a leg's best is refused.
C14_PairTotalsAndRefusal ==
    (CombineDone /\ cmb_best # PyNone) =>
        LET m == BestOf(cmb_morning, cmb_best.level)
            e == BestOf(cmb_evening, cmb_best.level)
        IN  /\ cmb_best.total_risk = m.risk + e.risk
            /\ cmb_best.total_discomfort = m.discomfort + e.discomfort
            /\ cmb_best.refused <=> (m.refused \/ e.refused)

\* a pair with exactly one refused leg is returned
C14_Witness ==
    /\ CombineDone
    /\ cmb_best # PyNone
    /\ cmb_best.morning.refused
    /\ ~cmb_best.evening.refused
    /\ cmb_best.refused

----------------------------------------------------------------------------
(* Properties of the daily run (checked under SpecDay, the first under Spec) *)

\* the step-wise run_forecast and the function run_forecast give the same options
RunForecastAgrees ==
    pc = "done" => Result(options) = run_forecast(MODE, GEAR_LEVEL, NOW, data)

\* the leg has run and its fetch succeeded
HasResult(leg) == LegResult(leg) \notin {NoResult, PyNone}
FetchFailed(leg) == LegResult(leg) = PyNone

\* the keys of the notifications sent by an advisor, in order
SentBy(sender) ==
    LET From(m) == m.sender = sender
        msgs == SelectSeq(sent, From)
    IN  [i \in 1..Len(msgs) |-> msgs[i].key]
SentKeys == { sent[i].key : i \in 1..Len(sent) }

\* notify_forecast of the leg has returned
Notified(leg) ==
    IF leg = "morning" THEN day_pc \in {"notify_evening", "done"}
                       ELSE day_pc = "done"

\* the window of the leg ends before the current time, rounded up to a slot
WindowOver(leg) ==
    LET high == IF leg = "morning"
                THEN MORNING_LATEST_DEPARTURE
                ELSE EVENING_FIRST_DEPARTURE + EVENING_MAX_LATE_DELTA_MIN
    IN  \E t \in NOW..(NOW + 14) : t % 15 = 0 /\ t > high

ViableLevels ==
    { l \in LevelsOf(morning_result) \cap LevelsOf(evening_result) :
        /\ ~BestOf(morning_result, l).refused
        /\ ~BestOf(evening_result, l).refused }

\* C15: a day that ends with no gear level viable in both legs (a leg
\* without options included) has sent no_round_trip_departure.
C15_NoViablePairReported ==
    (day_pc = "done" /\ ViableLevels = {}) =>
        "no_round_trip_departure" \in SentKeys

\* every candidate of every option of the leg is refused
AllRefused(leg) ==
    \A i \in 1..Len(LegResult(leg).options) :
        \A c \in SeqSet(LegResult(leg).options[i].candidates) : c.refused

\* C16: a leg all of whose candidates are refused at every evaluated gear
\* level is reported with no_clear_departure_found, and neither
\* best_departure nor best_return is sent for it.
C16_AllRefusedLegNotRecommended ==
    \A leg \in Modes :
        (HasResult(leg) /\ AllRefused(leg) /\ Notified(leg)) =>
            SentBy(leg) = <<"no_clear_departure_found">>

\* C18: once the fetch of a leg has failed, that leg has sent exactly one
\* weather_api_error, the day never completes, and no best_departure,
\* best_return, round-trip or no_clear_departure_found notification is sent.
C18_FetchFailureAborts ==
    \A leg \in Modes :
        FetchFailed(leg) =>
            /\ SentBy(leg) = <<"weather_api_error">>
            /\ day_pc # "done"
            /\ SentKeys \subseteq {"weather_api_error"}

----------------------------------------------------------------------------
(* Properties of the forecast access (checked under SpecFetch) *)

IsAttempt(e) == e \in {"ok", "RequestException", "ValueError"}
Attempts == Cardinality({ i \in 1..Len(events) : IsAttempt(events[i]) })

\* C17: the fetch raises only after 3 failed attempts: at most 3 attempts are
\* made, none after the first success, a sleep of one second separates a failed
\* attempt from the next one, and no exception reaches the caller while
\* attempts remain.
C17_RaisesOnlyAfterAllAttempts ==
    /\ Attempts <= 3
    /\ \A i \in 1..Len(events) : events[i] = "ok" => i = Len(events)
    /\ \A i \in 2..Len(events) :
          IsAttempt(events[i]) =>
              /\ events[i - 1] = "sleep"
              /\ i > 2 /\ events[i - 2] = "RequestException"
    /\ fetch_pc = "raised" => Attempts = 3

FetchDone == fetch_pc = "done"

\* the value of a field at a row of the provider's series is present and numeric
\* (an int or a float for the program, which includes a JSON boolean)
PresentNumeric(name, f, i) ==
    LET series == raw[name].minutely_15[f]
    IN  /\ i <= Len(series)
        /\ series[i].t \in {"number", "boolean"}

RowTime(name, i) == raw[name].minutely_15.time[i]
RowIdx(name) == 1..Len(raw[name].minutely_15.time)
FiveFields ==
    {"precipitation", "temperature_2m", "wind_speed_10m", "wind_direction_10m",
     "weather_code"}

----------------------------------------------------------------------------
(* Properties of the configuration (checked under SpecConfig) *)

\* the mode is unknown, or the window of the mode ends before it starts
BadConfig ==
    \/ MODE \notin {"morning", "evening"}
    \/ MODE = "morning" /\ MORNING_MAX_EARLY_DELTA_MIN < 0
    \/ MODE = "evening" /\ EVENING_MAX_LATE_DELTA_MIN < 0

\* C20: with an unknown mode or a window whose end precedes its start the run
\* raises before any fetch and any evaluation: it never gets a forecast, never
\* builds a window and never returns a result.
C20_BadConfigRaisesFirst ==
    BadConfig => pc \in {"fetch", "raised"}

----------------------------------------------------------------------------
(* Risk values and the strict threshold (checked under Spec) *)

RiskValues == {0, PENALTY, ScoreUnit}

\* every candidate evaluated so far, of the current gear level or of a
\* finished one
AllCandidates ==
    SeqSet(candidates) \cup
    UNION { SeqSet(options[k].candidates) : k \in 1..Len(options) }

\* C29: compute_risk only returns 0.0, 0.6 or 1.0, at every waypoint and so
\* for every candidate; a candidate whose risk is exactly 0.6 and whose
\* discomfort is at most the threshold 0.6 is not refused.
C29_RiskValuesAndStrictThreshold ==
    \A c \in AllCandidates :
        /\ c.risk \in RiskValues
        /\ \A i \in WaypointIdx : WaypointRisk(c.departure, i) \in RiskValues
        /\ (c.risk = PENALTY /\ c.discomfort <= RISK_SCORE_THRESHOLD) => ~c.refused

\* C29 witness: a candidate of a finished gear level with one penalty at its
\* worst waypoint (risk 0.6), no penalty at another waypoint, discomfort at
\* most 0.6, not refused.
C29_Witness ==
    \E k \in 1..Len(options) : \E c \in SeqSet(options[k].candidates) :
        /\ c.risk = PENALTY
        /\ \E i \in WaypointIdx : WaypointRisk(c.departure, i) = 0
        /\ c.discomfort <= RISK_SCORE_THRESHOLD
        /\ ~c.refused

\* the departures and risks of a candidate list, in its order
RiskProfile(cands) ==
    [k \in 1..Len(cands) |-> <<cands[k].departure, cands[k].risk>>]

\* C28: with gear_level = -1 the candidate lists of the gear levels hold the
\* same departures with the same risks, and the returned options hold the
\* levels 0, 1, 2 in this order or none; with a fixed gear level the options
\* hold at most that level.
C28_SameCandidatesAcrossLevels ==
    pc = "done" =>
        IF GEAR_LEVEL = 0 - 1
        THEN /\ options = <<>> \/ [k \in 1..Len(options) |-> options[k].level] = <<0, 1, 2>>
             /\ \A j, k \in 1..Len(options) :
                   RiskProfile(options[j].candidates) = RiskProfile(options[k].candidates)
        ELSE /\ Len(options) <= 1
             /\ \A k \in 1..Len(options) : options[k].level = GEAR_LEVEL

\* C28 witness: a finished run over all gear levels with three options whose
\* candidates differ in discomfort and in refusal between two levels.
C28_Witness ==
    /\ pc = "done" /\ GEAR_LEVEL = 0 - 1 /\ Len(options) = 3
    /\ \E j, k \in 1..3 : \E n \in 1..Len(options[j].candidates) :
          /\ options[j].candidates[n].discomfort # options[k].candidates[n].discomfort
          /\ options[j].candidates[n].refused /\ ~options[k].candidates[n].refused

\* C24: when a gear level has a best departure that is not refused in both
\* legs, the pair returned by the combiner is not refused, and the day sends
\* round_trip_departure, not no_round_trip_departure.
C24_ViablePairNeverRefused ==
    (HasResult("morning") /\ HasResult("evening") /\ combo # NoResult
        /\ ViableLevels # {}) =>
        /\ combo # PyNone
        /\ ~combo.refused
        /\ "no_round_trip_departure" \notin SentKeys
        /\ day_pc = "done" => "round_trip_departure" \in SentKeys

\* the positions in the log of the round-trip summaries and of the
\* notifications of notify_forecast of a leg
SummaryKeys == {"round_trip_departure", "no_round_trip_departure"}
SummaryAt == { i \in 1..Len(sent) : sent[i].key \in SummaryKeys }
LegAt(leg) ==
    { i \in 1..Len(sent) : sent[i].sender = leg /\ sent[i].key # "weather_api_error" }

\* C23: a daily run sends at most one round-trip summary; the summary comes
\* before the notification of each leg, the morning's before the evening's,
\* and after a summary each leg reports the gear level of the pair.
C23_OneSummaryThenLegs ==
    /\ Cardinality(SummaryAt) <= 1
    /\ \A i \in SummaryAt : \A leg \in Modes : \A j \in LegAt(leg) :
          /\ i < j
          /\ sent[j].level = combo.level
    /\ \A i \in LegAt("morning") : \A j \in LegAt("evening") : i < j
    /\ (day_pc = "done" /\ combo # PyNone) =>
          \A leg \in Modes : Cardinality(LegAt(leg)) = 1

\* C23 witness: a finished day with a summary followed by the two legs, where
\* the morning alone would have picked another gear level than the pair's.
C23_Witness ==
    /\ day_pc = "done"
    /\ Len(sent) = 3
    /\ sent[1].key = "round_trip_departure"
    /\ sent[2] = Msg("best_departure", "morning", combo.level)
    /\ sent[3] = Msg("best_return", "evening", combo.level)
    /\ MinByBestScore(morning_result.options).level # combo.level

----------------------------------------------------------------------------
(* Properties of the notification sink (checked under SpecEmbed) *)

\* C22: after _validate_embed_content the title has at most 256 characters,
\* the description at most 4096, every field name at most 256 and every
\* field value at most 1024: smart_truncate(text, n) is never longer than n.
C22_WithinLimits ==
    emb_out # NoResult =>
        /\ Len(emb_out.title) <= MAX_TITLE_LENGTH
        /\ Len(emb_out.description) <= MAX_DESCRIPTION_LENGTH
        /\ \A k \in 1..Len(emb_out.fields) :
              /\ Len(emb_out.fields[k][1]) <= MAX_FIELD_NAME_LENGTH
              /\ Len(emb_out.fields[k][2]) <= MAX_FIELD_VALUE_LENGTH

\* C25: a forecast fetch failure during a daily run does not end the process
\* with an unhandled exception: run_and_notify_day, which the main loop calls
\* outside any handler, does not raise, so the loop can go on to an iteration
\* that retries the run.
C25_FetchFailureSurvived ==
    (\E leg \in Modes : FetchFailed(leg)) => day_pc # "raised"

----------------------------------------------------------------------------
(* Properties of the agenda-derived windows (checked under SpecAgenda) *)

\* C26: every departure time enumerated by run_forecast lies on the
\* 15-minute grid of the forecast, whatever anchor times the main loop
\* derives from the agenda, so no slot is dropped for being off the grid.
C26_DeparturesOnGrid ==
    \A i \in 1..Len(departure_times) : departure_times[i] % SLOT_MINUTES = 0

----------------------------------------------------------------------------
(* Properties of the main loop (checked under SpecMain) *)

\* the iteration found classes whose morning window starts at or after the
\* current time, for a date not yet notified: the daily run is due
RunDue ==
    /\ main_pc = "window"
    /\ datetime_ge(DateTime(first_class.date,
                            first_class.minute - MorningLeadMinutes, FALSE),
                   main_now)

\* C27: a delivery failure is never propagated by NotificationService.send,
\* so a daily run that is due completes and the main loop then marks its
\* date as notified, even when none of its notifications was delivered.
C27_DueRunMarksDate ==
    RunDue ~> (main_now.date \in status_file)

\* C30: when get_first_and_last_class raises in an iteration, the first one
\* included, the failure is only logged: the iteration goes on to the next
\* one without a daily run, without reading class times of an earlier
\* iteration and without touching the notification status.
C30_AgendaFailureOnlyLogged ==
    [][main_pc = "logged" =>
          /\ main_pc' = "top"
          /\ status_file' = status_file
          /\ main_error' = PyNone]_vars

====
